---- MODULE Spec2Model ----
(***************************************************************************)
(* Model of the aregalo gift-registry backend: the FileStore tables, the   *)
(* schema conversions and the StoreService operations.                     *)
(*                                                                         *)
(* Python lists are sequences (index i of the code is index i + 1 here).   *)
(* An Optional[T] value is a sequence of length at most one: None is <<>>  *)
(* and a value x is <<x>>.                                                 *)
(***************************************************************************)
EXTENDS Integers, Sequences, FiniteSets, TLC

\* ----------------------------------------------------------------- bounds

\* Creation is not attempted once a user's counter has reached this value;
\* update payloads carry ids from 1 to this value.
MaxPresentId == 3

\* ------------------------------------------------------------ input sets

\* The user names the calls are made with. The store also holds bob's record
\* and list, which no call is made for.
Names == {"alice"}

\* The gifter names the calls are made with.
Gifters == {"carol"}

\* Optional values.
None == <<>>

Some(x) == <<x>>

\* ------------------------------------------------------------ schema.py

User(name, alias, icon, present_id) ==
    [name |-> name, alias |-> alias, icon |-> icon, present_id |-> present_id]

Present(id, title, description, link, price, favourite, assigned_to) ==
    [id |-> id, title |-> title, description |-> description, link |-> link,
     price |-> price, favourite |-> favourite, assigned_to |-> assigned_to]

UserData(name, alias, icon) ==
    [name |-> name, alias |-> alias, icon |-> icon]

PresentCreateData(title, description, link, price, favourite) ==
    [title |-> title, description |-> description, link |-> link,
     price |-> price, favourite |-> favourite]

PresentWishData(id, title, description, link, price, favourite) ==
    [id |-> id, title |-> title, description |-> description, link |-> link,
     price |-> price, favourite |-> favourite]

PresentGiftData(id, title, description, link, price, favourite, assigned_to) ==
    [id |-> id, title |-> title, description |-> description, link |-> link,
     price |-> price, favourite |-> favourite, assigned_to |-> assigned_to]

to_user_data(user) == UserData(user.name, user.alias, user.icon)

\* A wish view that leaks the assignments (used to test the claims).
to_present_wish_response_leaky(present) ==
    PresentGiftData(present.id, present.title, present.description,
                    present.link, present.price, present.favourite,
                    present.assigned_to)

to_present_wish_response(present) ==
    PresentWishData(present.id, present.title, present.description,
                    present.link, present.price, present.favourite)

to_present_gift_response(present) ==
    PresentGiftData(present.id, present.title, present.description,
                    present.link, present.price, present.favourite,
                    present.assigned_to)

PresentCreateData_to_present(data, id, assigned_to) ==
    Present(id, data.title, data.description, data.link, data.price,
            data.favourite, assigned_to)

\* An update that forgets the assignments (used to test the claims).
PresentWishData_to_present_reset(data, assigned_to) ==
    Present(data.id, data.title, data.description, data.link, data.price,
            data.favourite, <<>>)

PresentWishData_to_present(data, assigned_to) ==
    Present(data.id, data.title, data.description, data.link, data.price,
            data.favourite, assigned_to)

\* The creation payloads tried: the dataclass defaults, and every field set.
CreatePayloads ==
    { PresentCreateData("Book", "", Some(""), None, FALSE),
      PresentCreateData("Bike", "red", Some("http://bike"), Some(100), TRUE) }

\* The update payloads tried: any id, with the fields of a creation payload.
WishPayloads ==
    { PresentWishData(id, d.title, d.description, d.link, d.price, d.favourite) :
        id \in 1..MaxPresentId, d \in CreatePayloads }

\* ------------------------------------------------------------- store.py

VARIABLES
    store,   \* the FileStore: its users and its present lists, by user name
    last,    \* the last service call: operation, user, outcome, store writes
    minted,  \* per user, the ids of the presents created so far, in order
    threads  \* per thread that calls the service concurrently, its frame

vars == <<store, last, minted, threads>>

\* The FileStore object: self._users and self._presents. Both are saved to
\* their file by every upsert, which the calls log in their writes.
FileStore(users, presents) == [users |-> users, presents |-> presents]

get_user(s, name) ==
    IF name \in DOMAIN s.users THEN Some(s.users[name]) ELSE None

upsert_user(s, user) ==
    [s EXCEPT !.users = [n \in DOMAIN s.users \cup {user.name} |->
                            IF n = user.name THEN user ELSE s.users[n]]]

get_presents(s, name) ==
    IF name \in DOMAIN s.presents THEN Some(s.presents[name]) ELSE None

\* A save of the list that never reaches the table (used to test the claims).
upsert_presents_dropped(s, name, presents) == s

upsert_presents(s, name, presents) ==
    [s EXCEPT !.presents = [n \in DOMAIN s.presents \cup {name} |->
                            IF n = name THEN presents ELSE s.presents[n]]]

\* ----------------------------------------------------------- service.py

\* Outcomes of a call: "ok", the two HTTPException(NOT_FOUND) raised by the
\* service ("UserNotFound": detail 'No user with name', "PresentNotFound":
\* detail 'No present with id'), and the exceptions Python raises on None.
Result(status, s, ret, writes) ==
    [status |-> status, store |-> s, ret |-> ret, writes |-> writes]

\* [present.to_present_wish_response() for present in presents]
wish_responses(presents) ==
    [i \in 1..Len(presents) |-> to_present_wish_response(presents[i])]

\* [present.to_present_gift_response() for present in presents]
gift_responses(presents) ==
    [i \in 1..Len(presents) |-> to_present_gift_response(presents[i])]

Min(S) == CHOOSE x \in S : \A y \in S : x <= y

\* list.index(x); x is in the list
IndexOf(list, x) == Min({i \in 1..Len(list) : list[i] = x})

\* x in list
Contains(list, x) == \E i \in 1..Len(list) : list[i] = x

\* del list[index]
DelAt(list, index) ==
    [i \in 1..(Len(list) - 1) |-> IF i < index THEN list[i] ELSE list[i + 1]]

\* list.pop() in place of list.remove(x) (used to test the claims).
Remove_pop(list, x) == SubSeq(list, 1, Len(list) - 1)

\* list.remove(x): removes the first occurrence; x is in the list
Remove(list, x) == DelAt(list, IndexOf(list, x))

get_user_data(s, user) ==
    LET store_user == get_user(s, user)
    IN  IF store_user = None
        THEN Result("UserNotFound", s, <<>>, <<>>)
        ELSE Result("ok", s, <<to_user_data(store_user[1])>>, <<>>)

get_user_present_wish_list(s, user) ==
    LET store_presents == get_presents(s, user)
    IN  IF store_presents = None
        THEN Result("UserNotFound", s, <<>>, <<>>)
        ELSE Result("ok", s, wish_responses(store_presents[1]), <<>>)

get_user_present_gift_list(s, user) ==
    LET store_presents == get_presents(s, user)
    IN  IF store_presents = None
        THEN Result("UserNotFound", s, <<>>, <<>>)
        ELSE Result("ok", s, gift_responses(store_presents[1]), <<>>)

\* A lookup that falls back to the first present when the id is absent (used
\* to test the claims).
find_present_in_list_by_id_lenient(s, user, present_id) ==
    LET presents == get_presents(s, user)
    IN  IF presents = None
        THEN [status |-> "TypeError", presents |-> <<>>, index |-> 0]
        ELSE LET matching == {i \in 1..Len(presents[1]) :
                                presents[1][i].id = present_id}
             IN  IF matching = {} /\ presents[1] = <<>>
                 THEN [status |-> "PresentNotFound", presents |-> presents[1],
                       index |-> 0]
                 ELSE [status |-> "ok", presents |-> presents[1],
                       index |-> IF matching = {} THEN 1 ELSE Min(matching)]

\* filter(..., None) raises TypeError when the user has no present list.
find_present_in_list_by_id(s, user, present_id) ==
    LET presents == get_presents(s, user)
    IN  IF presents = None
        THEN [status |-> "TypeError", presents |-> <<>>, index |-> 0]
        ELSE LET matching == {i \in 1..Len(presents[1]) :
                                presents[1][i].id = present_id}
             IN  IF matching = {}
                 THEN [status |-> "PresentNotFound", presents |-> presents[1],
                       index |-> 0]
                 ELSE LET found_present == presents[1][Min(matching)]
                      IN  [status |-> "ok", presents |-> presents[1],
                           index |-> IndexOf(presents[1], found_present)]

\* A counter that is written back unchanged (used to test the claims).
next_present_id_stuck(present_id) == present_id

\* A counter that skips an id (used to test the claims).
next_present_id_skip(present_id) == present_id + 2

\* wish_user.present_id = present_id + 1
next_present_id(present_id) == present_id + 1

\* None.present_id and None.append raise AttributeError; the second is raised
\* after upsert_user has saved the incremented counter.
create_present(s, user, present) ==
    LET wish_user == get_user(s, user)
    IN  IF wish_user = None
        THEN Result("AttributeError", s, <<>>, <<>>)
        ELSE LET present_id == wish_user[1].present_id
                 s1 == upsert_user(s, [wish_user[1] EXCEPT
                          !.present_id = next_present_id(present_id)])
                 presents == get_presents(s1, user)
             IN  IF presents = None
                 THEN Result("AttributeError", s1, <<>>, <<"upsert_user">>)
                 ELSE LET appended == Append(presents[1],
                            PresentCreateData_to_present(present, present_id, <<>>))
                      IN  Result("ok", upsert_presents(s1, user, appended),
                                 wish_responses(appended),
                                 <<"upsert_user", "upsert_presents">>)

update_present(s, user, present_id, present) ==
    LET found == find_present_in_list_by_id(s, user, present_id)
    IN  IF found.status # "ok"
        THEN Result(found.status, s, <<>>, <<>>)
        ELSE LET presents == [found.presents EXCEPT ![found.index] =
                    PresentWishData_to_present(present,
                        found.presents[found.index].assigned_to)]
             IN  Result("ok", upsert_presents(s, user, presents),
                        wish_responses(presents),
                        <<"upsert_presents">>)

delete_present(s, user, present_id) ==
    LET found == find_present_in_list_by_id(s, user, present_id)
    IN  IF found.status # "ok"
        THEN Result(found.status, s, <<>>, <<>>)
        ELSE LET presents == DelAt(found.presents, found.index)
             IN  Result("ok", upsert_presents(s, user, presents),
                        wish_responses(presents),
                        <<"upsert_presents">>)

\* An assignment that never looks at the current gifters (used to test the
\* claims).
assign_user_to_present_blind(s, user, present_id, gifter) ==
    LET found == find_present_in_list_by_id(s, user, present_id)
    IN  IF found.status # "ok"
        THEN Result(found.status, s, <<>>, <<>>)
        ELSE LET presents == [found.presents EXCEPT ![found.index].assigned_to =
                                Append(@, gifter)]
             IN  Result("ok", upsert_presents(s, user, presents),
                        gift_responses(presents),
                        <<"upsert_presents">>)

assign_user_to_present(s, user, present_id, gifter) ==
    LET found == find_present_in_list_by_id(s, user, present_id)
    IN  IF found.status # "ok"
        THEN Result(found.status, s, <<>>, <<>>)
        ELSE IF ~Contains(found.presents[found.index].assigned_to, gifter)
             THEN LET presents == [found.presents EXCEPT
                          ![found.index].assigned_to = Append(@, gifter)]
                  IN  Result("ok", upsert_presents(s, user, presents),
                             gift_responses(presents),
                             <<"upsert_presents">>)
             ELSE Result("ok", s,
                         gift_responses(found.presents), <<>>)

\* A removal that saves the list whether or not it changed it (used to test
\* the claims).
remove_user_from_present_eager(s, user, present_id, gifter) ==
    LET found == find_present_in_list_by_id(s, user, present_id)
    IN  IF found.status # "ok"
        THEN Result(found.status, s, <<>>, <<>>)
        ELSE LET presents ==
                    IF Contains(found.presents[found.index].assigned_to, gifter)
                    THEN [found.presents EXCEPT ![found.index].assigned_to =
                            Remove(@, gifter)]
                    ELSE found.presents
             IN  Result("ok", upsert_presents(s, user, presents),
                        gift_responses(presents),
                        <<"upsert_presents">>)

remove_user_from_present(s, user, present_id, gifter) ==
    LET found == find_present_in_list_by_id(s, user, present_id)
    IN  IF found.status # "ok"
        THEN Result(found.status, s, <<>>, <<>>)
        ELSE IF Contains(found.presents[found.index].assigned_to, gifter)
             THEN LET presents == [found.presents EXCEPT
                          ![found.index].assigned_to = Remove(@, gifter)]
                  IN  Result("ok", upsert_presents(s, user, presents),
                             gift_responses(presents),
                             <<"upsert_presents">>)
             ELSE Result("ok", s,
                         gift_responses(found.presents), <<>>)

\* ------------------------------------------------------------ the calls

\* The record of a call r of operation op for user.
Call(op, user, r) ==
    [op |-> op, user |-> user, status |-> r.status, writes |-> r.writes]

\* users.yml and presents.yml as loaded by FileStore.__init__. alice's
\* counter is at its seed, 1, and her list is empty; her user record, her
\* list, both or neither may be missing from the files. bob has one present,
\* with a gifter.
Init ==
    /\ \E users \in {{"alice", "bob"}, {"bob"}},
          presents \in {{"alice", "bob"}, {"bob"}} :
            store = FileStore(
                [n \in users |->
                    IF n = "alice" THEN User("alice", "Alice", "alice.png", 1)
                    ELSE User("bob", "Bob", "bob.png", 2)],
                [n \in presents |->
                    IF n = "alice" THEN <<>>
                    ELSE <<Present(1, "Socks", "", Some(""), None, FALSE,
                                   <<"alice">>)>>])
    /\ last = [op |-> "init", user |-> "", status |-> "ok", writes |-> <<>>]
    /\ minted = [n \in Names |-> <<>>]
    /\ threads = <<>>

GetUserData ==
    \E user \in Names :
        \E r \in {get_user_data(store, user)} :
            /\ store' = r.store
            /\ last' = Call("get_user_data", user, r)
            /\ UNCHANGED <<minted, threads>>

GetUserPresentWishList ==
    \E user \in Names :
        \E r \in {get_user_present_wish_list(store, user)} :
            /\ store' = r.store
            /\ last' = Call("get_user_present_wish_list", user, r)
            /\ UNCHANGED <<minted, threads>>

GetUserPresentGiftList ==
    \E user \in Names :
        \E r \in {get_user_present_gift_list(store, user)} :
            /\ store' = r.store
            /\ last' = Call("get_user_present_gift_list", user, r)
            /\ UNCHANGED <<minted, threads>>

CreatePresent ==
    \E user \in Names, present \in CreatePayloads :
        /\ user \in DOMAIN store.users
                => store.users[user].present_id < MaxPresentId
        /\ \E r \in {create_present(store, user, present)} :
            /\ store' = r.store
            /\ last' = Call("create_present", user, r)
            /\ minted' = IF r.status = "ok"
                         THEN [minted EXCEPT ![user] =
                                 Append(@, r.ret[Len(r.ret)].id)]
                         ELSE minted
            /\ UNCHANGED threads

UpdatePresent ==
    \E user \in Names, present_id \in 1..MaxPresentId, present \in WishPayloads :
        \E r \in {update_present(store, user, present_id, present)} :
            /\ store' = r.store
            /\ last' = Call("update_present", user, r)
            /\ UNCHANGED <<minted, threads>>

DeletePresent ==
    \E user \in Names, present_id \in 1..MaxPresentId :
        \E r \in {delete_present(store, user, present_id)} :
            /\ store' = r.store
            /\ last' = Call("delete_present", user, r)
            /\ UNCHANGED <<minted, threads>>

AssignUserToPresent ==
    \E user \in Names, present_id \in 1..MaxPresentId, gifter \in Gifters :
        \E r \in {assign_user_to_present(store, user, present_id, gifter)} :
            /\ store' = r.store
            /\ last' = Call("assign_user_to_present", user, r)
            /\ UNCHANGED <<minted, threads>>

RemoveUserFromPresent ==
    \E user \in Names, present_id \in 1..MaxPresentId, gifter \in Gifters :
        \E r \in {remove_user_from_present(store, user, present_id, gifter)} :
            /\ store' = r.store
            /\ last' = Call("remove_user_from_present", user, r)
            /\ UNCHANGED <<minted, threads>>

Next ==
    \/ GetUserData
    \/ GetUserPresentWishList
    \/ GetUserPresentGiftList
    \/ CreatePresent
    \/ UpdatePresent
    \/ DeletePresent
    \/ AssignUserToPresent
    \/ RemoveUserFromPresent

Spec == Init /\ [][Next]_vars

\* ----------------------------------------------------------- the claims

MutatingOps ==
    {"create_present", "update_present", "delete_present",
     "assign_user_to_present", "remove_user_from_present"}

WishViewOps ==
    {"get_user_present_wish_list", "create_present", "update_present",
     "delete_present"}

PresentIds == 1..MaxPresentId

\* The ids of the presents of a list.
Ids(list) == {list[i].id : i \in 1..Len(list)}

\* How many times x occurs in list.
Count(list, x) == Cardinality({i \in 1..Len(list) : list[i] = x})

\* The store with every assigned_to emptied.
Unassigned(s) ==
    [s EXCEPT !.presents =
        [n \in DOMAIN s.presents |->
            [i \in 1..Len(s.presents[n]) |->
                [s.presents[n][i] EXCEPT !.assigned_to = <<>>]]]]

\* C1: the ids create_present has minted for a user, in the order of the
\* calls, are strictly increasing, whatever updates, deletions, assignments
\* and unassignments came between: no id is minted twice.
C1_MintedIdsIncrease ==
    \A user \in Names :
        \A i, j \in 1..Len(minted[user]) :
            i < j => minted[user][i] < minted[user][j]

\* C1 witness: a second present was just created for alice after the first
\* one was deleted.
C1_Witness ==
    /\ last.op = "create_present" /\ last.status = "ok" /\ last.user = "alice"
    /\ Len(minted["alice"]) = 2
    /\ Len(store.presents["alice"]) = 1

\* C2: no present list holds two presents with the same id.
C2_UniqueIds ==
    \A user \in DOMAIN store.presents :
        \A i, j \in 1..Len(store.presents[user]) :
            i # j => store.presents[user][i].id # store.presents[user][j].id

\* C3: a successful update_present leaves the assigned_to of every present
\* of the list as the gift list showed it before, and the gift list shows the
\* updated present with the payload's title, description, link, price and
\* favourite.
C3_UpdatePreservesAssignments ==
    \A user \in Names, present_id \in PresentIds, present \in WishPayloads :
        LET found == find_present_in_list_by_id(store, user, present_id)
            r == update_present(store, user, present_id, present)
            before == get_user_present_gift_list(store, user).ret
            after == get_user_present_gift_list(r.store, user).ret
        IN  r.status = "ok" =>
                /\ Len(after) = Len(before)
                /\ \A i \in 1..Len(before) :
                        after[i].assigned_to = before[i].assigned_to
                /\ after[found.index].title = present.title
                /\ after[found.index].description = present.description
                /\ after[found.index].link = present.link
                /\ after[found.index].price = present.price
                /\ after[found.index].favourite = present.favourite

\* C3 witness: an update has just succeeded on alice's only present, which
\* was created with id 1, has a gifter and now has the id 2 of the payload.
C3_Witness ==
    /\ last.op = "update_present" /\ last.status = "ok" /\ last.user = "alice"
    /\ minted["alice"] = <<1>>
    /\ Len(store.presents["alice"]) = 1
    /\ store.presents["alice"][1].assigned_to # <<>>
    /\ store.presents["alice"][1].id = 2

\* C4: a second assign_user_to_present with the arguments of a successful
\* first one succeeds, returns the same gift list, writes nothing to the
\* store and leaves the gifter exactly once in the present's assigned_to.
C4_AssignIdempotent ==
    \A user \in Names, present_id \in PresentIds, gifter \in Gifters :
        LET first == assign_user_to_present(store, user, present_id, gifter)
            second == assign_user_to_present(first.store, user, present_id, gifter)
            found == find_present_in_list_by_id(second.store, user, present_id)
        IN  first.status = "ok" =>
                /\ second.status = "ok"
                /\ second.ret = first.ret
                /\ second.writes = <<>>
                /\ second.store = first.store
                /\ Count(found.presents[found.index].assigned_to, gifter) = 1

\* C4 witness: an assignment of an already assigned gifter has just
\* succeeded without a store write.
C4_Witness ==
    /\ last.op = "assign_user_to_present" /\ last.status = "ok"
    /\ last.writes = <<>>
    /\ \E i \in 1..Len(store.presents[last.user]) :
            store.presents[last.user][i].assigned_to # <<>>

\* C5: remove_user_from_present of a gifter who is not assigned to the
\* located present succeeds, writes nothing, leaves the store as it was and
\* returns the gift list of before the call.
C5_RemoveAbsentIsNoOp ==
    \A user \in Names, present_id \in PresentIds, gifter \in Gifters :
        LET found == find_present_in_list_by_id(store, user, present_id)
            r == remove_user_from_present(store, user, present_id, gifter)
        IN  (/\ found.status = "ok"
             /\ ~Contains(found.presents[found.index].assigned_to, gifter)) =>
                /\ r.status = "ok"
                /\ r.writes = <<>>
                /\ r.store = store
                /\ r.ret = get_user_present_gift_list(store, user).ret

\* C5 witness: a removal has just succeeded without a store write.
C5_Witness ==
    /\ last.op = "remove_user_from_present" /\ last.status = "ok"
    /\ last.writes = <<>>

\* Two outcomes a wisher cannot tell apart, neither showing an assigned_to.
SameWishView(r1, r2) ==
    /\ r1.status = r2.status
    /\ r1.ret = r2.ret
    /\ \A i \in 1..Len(r1.ret) : "assigned_to" \notin DOMAIN r1.ret[i]

\* C6: every wish-view operation returns presents without an assigned_to
\* field, and returns on the store what it returns on the store that differs
\* from it only by having every assigned_to emptied.
C6_WishViewHidesAssignments ==
    LET hidden == Unassigned(store)
    IN  /\ \A user \in Names :
                SameWishView(get_user_present_wish_list(store, user),
                             get_user_present_wish_list(hidden, user))
        /\ \A user \in Names, present \in CreatePayloads :
                SameWishView(create_present(store, user, present),
                             create_present(hidden, user, present))
        /\ \A user \in Names, present_id \in PresentIds, present \in WishPayloads :
                SameWishView(update_present(store, user, present_id, present),
                             update_present(hidden, user, present_id, present))
        /\ \A user \in Names, present_id \in PresentIds :
                SameWishView(delete_present(store, user, present_id),
                             delete_present(hidden, user, present_id))

\* C6 witness: the wish list has just been returned for a user one of whose
\* presents has a gifter.
C6_Witness ==
    /\ last.op = "get_user_present_wish_list" /\ last.status = "ok"
    /\ \E i \in 1..Len(store.presents[last.user]) :
            store.presents[last.user][i].assigned_to # <<>>

\* C7: a mutating call for a user who has no user record or no present list
\* ends with UserNotFound. (No call adds or removes a user record or a
\* present list, so the user lacked it when the call was made.)
C7_MutationsFailWithUserNotFound ==
    (/\ last.op \in MutatingOps
     /\ \/ last.user \notin DOMAIN store.users
        \/ last.user \notin DOMAIN store.presents)
        => last.status = "UserNotFound"

\* C8: a list read for a user who has no user record or no present list,
\* and get_user_data for a user who has no user record, end with
\* UserNotFound; every other read succeeds, and no read writes to the store.
C8_ReadsFailWithUserNotFound ==
    /\ last.op \in {"get_user_present_wish_list", "get_user_present_gift_list"} =>
            /\ last.writes = <<>>
            /\ last.status =
                    IF \/ last.user \notin DOMAIN store.users
                       \/ last.user \notin DOMAIN store.presents
                    THEN "UserNotFound" ELSE "ok"
    /\ last.op = "get_user_data" =>
            /\ last.writes = <<>>
            /\ last.status = IF last.user \notin DOMAIN store.users
                             THEN "UserNotFound" ELSE "ok"

\* The four calls that look a present up by its id, made on store s.
LookupCalls(s, user, present_id) ==
    {update_present(s, user, present_id, present) : present \in WishPayloads}
    \cup {delete_present(s, user, present_id)}
    \cup {assign_user_to_present(s, user, present_id, gifter) : gifter \in Gifters}
    \cup {remove_user_from_present(s, user, present_id, gifter) : gifter \in Gifters}

\* Every lookup call on store s for an id the user's list lacks ends with
\* PresentNotFound and leaves the store alone.
AbsentIdNotFound(s, user, present_id) ==
    present_id \notin Ids(s.presents[user]) =>
        \A r \in LookupCalls(s, user, present_id) :
            r.status = "PresentNotFound" /\ r.store = s /\ r.writes = <<>>

\* C9: update_present, delete_present, assign_user_to_present and
\* remove_user_from_present for a user with a present list and an id that no
\* present of the list has end with PresentNotFound; so they do on the store
\* a successful delete_present leaves, unless the list still has the id.
C9_AbsentIdFailsWithPresentNotFound ==
    \A user \in DOMAIN store.presents, present_id \in PresentIds :
        /\ AbsentIdNotFound(store, user, present_id)
        /\ LET deleted == delete_present(store, user, present_id)
           IN  deleted.status = "ok" =>
                    AbsentIdNotFound(deleted.store, user, present_id)

\* C9 witness: a lookup call has just ended with PresentNotFound for alice,
\* whose presents have all been deleted.
C9_Witness ==
    /\ last.op \in MutatingOps /\ last.status = "PresentNotFound"
    /\ last.user = "alice"
    /\ minted["alice"] # <<>>
    /\ store.presents["alice"] = <<>>

\* C10: a call that fails leaves the users and the present lists exactly as
\* they were before it.
C10_FailedCallsWriteNothing ==
    [][last'.status # "ok" => store' = store]_vars

\* r, a call for user, returned what the wish list read returns after it.
RefreshedWish(r, user) ==
    r.status = "ok" =>
        get_user_present_wish_list(r.store, user)
            = Result("ok", r.store, r.ret, <<>>)

\* r, a call for user, returned what the gift list read returns after it.
RefreshedGift(r, user) ==
    r.status = "ok" =>
        get_user_present_gift_list(r.store, user)
            = Result("ok", r.store, r.ret, <<>>)

\* C12: the list a successful create_present, update_present or
\* delete_present returns is the one get_user_present_wish_list returns right
\* after it, and the list a successful assign_user_to_present or
\* remove_user_from_present returns is the one get_user_present_gift_list
\* returns right after it.
C12_ReturnsRefreshedList ==
    [](\A user \in Names :
        /\ \A present \in CreatePayloads :
            RefreshedWish(create_present(store, user, present), user)
        /\ \A present_id \in PresentIds :
            /\ \A present \in WishPayloads :
                RefreshedWish(update_present(store, user, present_id, present),
                              user)
            /\ RefreshedWish(delete_present(store, user, present_id), user)
            /\ \A gifter \in Gifters :
                /\ RefreshedGift(assign_user_to_present(store, user,
                                    present_id, gifter), user)
                /\ RefreshedGift(remove_user_from_present(store, user,
                                    present_id, gifter), user))

\* C12 witness: a present with a gifter has just been deleted from a list
\* that keeps another present.
C12_Witness ==
    /\ last.op = "delete_present" /\ last.status = "ok" /\ last.user = "alice"
    /\ Len(minted["alice"]) = 2
    /\ Len(store.presents["alice"]) = 1
    /\ store.presents["alice"][1].assigned_to # <<>>

\* C13: a successful update_present(owner, present_id, payload) leaves the
\* updated present with id present_id and leaves the set of ids in the
\* owner's list as it was, for every payload, also one whose id field
\* differs from present_id.
C13_UpdateKeepsId ==
    [][\A user \in Names, present_id \in PresentIds, present \in WishPayloads :
        LET r == update_present(store, user, present_id, present)
        IN  (/\ last'.op = "update_present" /\ last'.user = user
             /\ r.status = "ok" /\ store' = r.store)
            => LET found == find_present_in_list_by_id(store, user, present_id)
               IN  /\ store'.presents[user][found.index].id = present_id
                   /\ Ids(store'.presents[user]) = Ids(store.presents[user])]_vars

\* C14: a successful create_present appends exactly one present at the end
\* of the owner's list, with the id the owner's next_present_id had before
\* the call, the payload's fields and nobody assigned; it raises that
\* counter by exactly one and leaves the presents that were there as they
\* were, in their order. No other operation changes a next_present_id.
C14_CreateAppendsOne ==
    [](\A user \in Names :
        /\ \A present \in CreatePayloads :
            LET r == create_present(store, user, present)
            IN  r.status = "ok" =>
                LET before == store.presents[user]
                    after == r.store.presents[user]
                    present_id == store.users[user].present_id
                IN  /\ Len(after) = Len(before) + 1
                    /\ SubSeq(after, 1, Len(before)) = before
                    /\ after[Len(after)] =
                        [id |-> present_id, title |-> present.title,
                         description |-> present.description,
                         link |-> present.link, price |-> present.price,
                         favourite |-> present.favourite, assigned_to |-> <<>>]
                    /\ r.store.users[user].present_id = present_id + 1
                    /\ \A n \in DOMAIN store.users \ {user} :
                        r.store.users[n] = store.users[n]
        /\ get_user_data(store, user).store.users = store.users
        /\ get_user_present_wish_list(store, user).store.users = store.users
        /\ get_user_present_gift_list(store, user).store.users = store.users
        /\ \A present_id \in PresentIds :
            /\ \A present \in WishPayloads :
                update_present(store, user, present_id, present).store.users
                    = store.users
            /\ delete_present(store, user, present_id).store.users = store.users
            /\ \A gifter \in Gifters :
                /\ assign_user_to_present(store, user, present_id,
                        gifter).store.users = store.users
                /\ remove_user_from_present(store, user, present_id,
                        gifter).store.users = store.users)

\* C14 witness: a second present has just been created behind one that has
\* a gifter.
C14_Witness ==
    /\ last.op = "create_present" /\ last.status = "ok" /\ last.user = "alice"
    /\ minted["alice"] = <<1, 2>>
    /\ Len(store.presents["alice"]) = 2
    /\ store.presents["alice"][1].assigned_to # <<>>
    /\ store.presents["alice"][2].id = 2

\* C15: a successful delete_present(owner, present_id) removes the present
\* with that id and nothing else: afterwards the owner's list has no present
\* with id present_id, and every other present of the list is kept
\* unchanged, in the same relative order.
C15_DeleteRemovesThePresent ==
    [][\A user \in Names, present_id \in PresentIds :
        LET r == delete_present(store, user, present_id)
        IN  (/\ last'.op = "delete_present" /\ last'.user = user
             /\ r.status = "ok" /\ store' = r.store)
            => LET before == store.presents[user]
                   after == store'.presents[user]
                   kept == {i \in 1..Len(before) : before[i].id # present_id}
               IN  /\ present_id \notin Ids(after)
                   /\ Len(after) = Cardinality(kept)
                   /\ \A i \in kept :
                        after[Cardinality({j \in kept : j <= i})] = before[i]]_vars

\* A gifter besides the ones that make the calls of the specification.
OtherGifter == "dave"

\* Store s (seed 0), or s after OtherGifter has assigned himself to the
\* present seed of user.
WithOtherGifter(s, user, seed) ==
    IF seed = 0 THEN s
    ELSE assign_user_to_present(s, user, seed, OtherGifter).store

\* list without the occurrences of x.
Without(list, x) == SelectSeq(list, LAMBDA y : y # x)

\* The assigned_to of the presents of a list, by position.
Assignments(list) == [i \in 1..Len(list) |-> list[i].assigned_to]

\* What a successful assign or remove r of gifter on present_id may change
\* in store s: the membership of gifter in the present located, nothing else.
OnlyMembershipChanged(s, r, user, present_id, gifter) ==
    r.status = "ok" =>
        LET before == s.presents[user]
            after == r.store.presents[user]
            index == find_present_in_list_by_id(s, user, present_id).index
        IN  /\ r.store.users = s.users
            /\ DOMAIN r.store.presents = DOMAIN s.presents
            /\ \A n \in DOMAIN s.presents \ {user} :
                    r.store.presents[n] = s.presents[n]
            /\ Len(after) = Len(before)
            /\ \A i \in 1..Len(before) :
                IF i = index
                THEN /\ [after[i] EXCEPT !.assigned_to = <<>>]
                            = [before[i] EXCEPT !.assigned_to = <<>>]
                     /\ Without(after[i].assigned_to, gifter)
                            = Without(before[i].assigned_to, gifter)
                ELSE after[i] = before[i]

\* What a call r for user that is no assign or remove may change in the
\* assignments of store s: nothing if it fails, else they become kept.
AssignmentsBecome(s, r, user, kept) ==
    IF r.status = "ok"
    THEN Assignments(r.store.presents[user]) = kept
    ELSE r.store.presents = s.presents

\* C16: a successful assign_user_to_present or remove_user_from_present of
\* gifter g on present_id changes nothing but g's membership in the
\* assigned_to of that present: its other fields, its other gifters, the
\* other presents, the other owners' lists and the user records stay as
\* they were. Conversely no other call changes the assignments of a present
\* that stays in the list: reads and failed calls leave the lists alone,
\* update_present keeps every assigned_to, create_present appends a present
\* with nobody assigned, delete_present only drops the present located.
C16_AssignmentFrame ==
    [](\A user \in Names :
        /\ \A seed \in {0} \cup PresentIds, present_id \in PresentIds,
              gifter \in Gifters \cup {OtherGifter} :
            LET s == WithOtherGifter(store, user, seed)
            IN  /\ OnlyMembershipChanged(s,
                        assign_user_to_present(s, user, present_id, gifter),
                        user, present_id, gifter)
                /\ OnlyMembershipChanged(s,
                        remove_user_from_present(s, user, present_id, gifter),
                        user, present_id, gifter)
        /\ \A present_id \in PresentIds, gifter \in Gifters :
            /\ assign_user_to_present(store, user, present_id, gifter).status
                    # "ok"
                => assign_user_to_present(store, user, present_id,
                        gifter).store = store
            /\ remove_user_from_present(store, user, present_id, gifter).status
                    # "ok"
                => remove_user_from_present(store, user, present_id,
                        gifter).store = store
        /\ get_user_data(store, user).store = store
        /\ get_user_present_wish_list(store, user).store = store
        /\ get_user_present_gift_list(store, user).store = store
        /\ \A present \in CreatePayloads :
            AssignmentsBecome(store, create_present(store, user, present), user,
                Append(Assignments(store.presents[user]), <<>>))
        /\ \A present_id \in PresentIds :
            /\ \A present \in WishPayloads :
                AssignmentsBecome(store,
                    update_present(store, user, present_id, present), user,
                    Assignments(store.presents[user]))
            /\ AssignmentsBecome(store,
                    delete_present(store, user, present_id), user,
                    DelAt(Assignments(store.presents[user]),
                        find_present_in_list_by_id(store, user,
                            present_id).index)))

\* C16 witness: a gifter has just been removed from one of two presents and
\* is still assigned to the other.
C16_Witness ==
    /\ last.op = "remove_user_from_present" /\ last.status = "ok"
    /\ last.writes = <<"upsert_presents">>
    /\ Len(store.presents["alice"]) = 2
    /\ \E i, j \in 1..2 :
        /\ store.presents["alice"][i].assigned_to = <<>>
        /\ store.presents["alice"][j].assigned_to = <<"carol">>

\* Every id in a user's list is below that user's next_present_id.
CounterDominates(s) ==
    \A n \in DOMAIN s.users \cap DOMAIN s.presents :
        \A i \in 1..Len(s.presents[n]) :
            s.presents[n][i].id < s.users[n].present_id

\* C19: from a store in which every id in a user's list is below that
\* user's next_present_id, every sequence of calls, with any payloads,
\* keeps it so; and no next_present_id ever decreases.
C19_CounterDominatesIds ==
    /\ [](CounterDominates(store))
    /\ [][\A n \in DOMAIN store.users :
            /\ n \in DOMAIN store'.users
            /\ store'.users[n].present_id >= store.users[n].present_id]_vars

\* ----------------------------------------------------- concurrent calls

\* StoreService called from two threads at once, each making one call of
\* create_present, assign_user_to_present or remove_user_from_present for
\* alice. A thread runs its method one statement at a time and the other
\* thread may run between any two statements.

Threads == {1, 2}

\* The gifter names the threads call with.
ThreadGifters == {"carol", "dave"}

\* The tables when the threads start: alice has two presents, the second
\* with a gifter, and her counter is above both ids.
ThreadStore ==
    FileStore(
        [n \in {"alice", "bob"} |->
            IF n = "alice" THEN User("alice", "Alice", "alice.png", 3)
            ELSE User("bob", "Bob", "bob.png", 2)],
        [n \in {"alice", "bob"} |->
            IF n = "alice"
            THEN <<Present(1, "Book", "", Some(""), None, FALSE, <<>>),
                   Present(2, "Bike", "red", Some("http://bike"), Some(100),
                           TRUE, <<"carol">>)>>
            ELSE <<Present(1, "Socks", "", Some(""), None, FALSE,
                           <<"alice">>)>>])

\* A thread's frame: the method it runs (op) with its arguments, the
\* statement it is at (pc), the locals present_id (of create_present; the
\* argument of the other two) and found_present_index, and the outcome once
\* it is done. Three fields record what happened, for the claims: seen is
\* the list as it was when the thread got it, modified tells that the thread
\* has changed the list, after holds the threads that had saved their change
\* when this one saved its own.
Frame(op, user, present_id, gifter, present, pc) ==
    [op |-> op, user |-> user, present_id |-> present_id, gifter |-> gifter,
     present |-> present, pc |-> pc, found_present_index |-> 0,
     seen |-> <<>>, modified |-> FALSE, after |-> {}, status |-> ""]

Idle == Frame("none", "", 0, "", None, "idle")

\* The calls a thread may make.
ThreadCalls ==
    {Frame("create_present", user, 0, "", Some(present), "get_user") :
        user \in Names, present \in CreatePayloads}
    \cup {Frame(op, user, present_id, gifter, None, "find") :
            op \in {"assign_user_to_present", "remove_user_from_present"},
            user \in Names, present_id \in 1..MaxPresentId,
            gifter \in ThreadGifters}

\* The frame f once its method has ended with status.
Done(f, status) == [f EXCEPT !.pc = "done", !.status = status]

\* The list named by presents as a copy made when the thread got it (used to
\* test the claims).
thread_presents_copy(s, f) == f.seen

\* The list the local variable presents of frame f names. get_presents
\* returns the list held in the table, not a copy of it, so it is the stored
\* list as it is now.
thread_presents(s, f) == s.presents[f.user]

\* The tables once the list named by presents has been changed in place to
\* presents: the table holds that very list.
in_place(s, f, presents) == [s EXCEPT !.presents[f.user] = presents]

ThreadInit ==
    /\ store = ThreadStore
    /\ last = [op |-> "init", user |-> "", status |-> "ok", writes |-> <<>>]
    /\ minted = [n \in Names |-> <<1, 2>>]
    /\ threads = [t \in Threads |-> Idle]

\* A thread enters a method.
ThreadCall ==
    \E t \in Threads, f \in ThreadCalls :
        /\ threads[t].pc = "idle"
        /\ threads' = [threads EXCEPT ![t] = f]
        /\ UNCHANGED <<store, last, minted>>

\* create_present: wish_user = get_user(user); present_id = wish_user.present_id
CreateReadPresentId ==
    \E t \in Threads :
        LET f == threads[t]
            wish_user == get_user(store, f.user)
        IN  /\ f.pc = "get_user"
            /\ threads' = [threads EXCEPT ![t] =
                    IF wish_user = None THEN Done(f, "AttributeError")
                    ELSE [f EXCEPT !.present_id = wish_user[1].present_id,
                                   !.pc = "set_present_id"]]
            /\ UNCHANGED <<store, last, minted>>

\* create_present: wish_user.present_id = present_id + 1; upsert_user(wish_user).
\* wish_user is the User object held in the table.
CreateWritePresentId ==
    \E t \in Threads :
        LET f == threads[t]
        IN  /\ f.pc = "set_present_id"
            /\ store' = upsert_user(store,
                    [store.users[f.user] EXCEPT
                        !.present_id = next_present_id(f.present_id)])
            /\ threads' = [threads EXCEPT ![t].pc = "get_presents"]
            /\ UNCHANGED <<last, minted>>

\* create_present: presents = get_presents(user)
CreateGetPresents ==
    \E t \in Threads :
        LET f == threads[t]
            presents == get_presents(store, f.user)
        IN  /\ f.pc = "get_presents"
            /\ threads' = [threads EXCEPT ![t] =
                    IF presents = None THEN Done(f, "AttributeError")
                    ELSE [f EXCEPT !.seen = presents[1], !.pc = "append"]]
            /\ UNCHANGED <<store, last, minted>>

\* create_present: presents.append(present.to_present(present_id, assigned_to=[]))
CreateAppend ==
    \E t \in Threads :
        LET f == threads[t]
        IN  /\ f.pc = "append"
            /\ store' = in_place(store, f,
                    Append(thread_presents(store, f),
                           PresentCreateData_to_present(f.present[1],
                                                        f.present_id, <<>>)))
            /\ threads' = [threads EXCEPT ![t].modified = TRUE,
                                          ![t].pc = "upsert_presents"]
            /\ UNCHANGED <<last, minted>>

\* assign_user_to_present, remove_user_from_present:
\* presents, found_present, found_present_index = find_present_in_list_by_id(...)
ThreadFind ==
    \E t \in Threads :
        LET f == threads[t]
            found == find_present_in_list_by_id(store, f.user, f.present_id)
        IN  /\ f.pc = "find"
            /\ threads' = [threads EXCEPT ![t] =
                    IF found.status # "ok" THEN Done(f, found.status)
                    ELSE [f EXCEPT !.found_present_index = found.index,
                                   !.seen = found.presents, !.pc = "check"]]
            /\ UNCHANGED <<store, last, minted>>

\* assign_user_to_present: if gifter not in presents[i].assigned_to
\* remove_user_from_present: if gifter in presents[i].assigned_to
\* Otherwise the method returns the list without a write.
ThreadCheck ==
    \E t \in Threads :
        LET f == threads[t]
            is_in == Contains(thread_presents(store, f)
                                [f.found_present_index].assigned_to, f.gifter)
        IN  /\ f.pc = "check"
            /\ threads' = [threads EXCEPT ![t] =
                    IF is_in = (f.op = "remove_user_from_present")
                    THEN [f EXCEPT !.pc = "modify"]
                    ELSE Done(f, "ok")]
            /\ UNCHANGED <<store, last, minted>>

\* assign_user_to_present: presents[i].assigned_to.append(gifter)
AssignAppend ==
    \E t \in Threads :
        LET f == threads[t]
        IN  /\ f.pc = "modify" /\ f.op = "assign_user_to_present"
            /\ store' = in_place(store, f,
                    [thread_presents(store, f) EXCEPT
                        ![f.found_present_index].assigned_to =
                            Append(@, f.gifter)])
            /\ threads' = [threads EXCEPT ![t].modified = TRUE,
                                          ![t].pc = "upsert_presents"]
            /\ UNCHANGED <<last, minted>>

\* remove_user_from_present: presents[i].assigned_to.remove(gifter), which
\* raises ValueError when the gifter is no longer in the list.
RemoveRemove ==
    \E t \in Threads :
        LET f == threads[t]
            assigned_to == thread_presents(store, f)
                                [f.found_present_index].assigned_to
        IN  /\ f.pc = "modify" /\ f.op = "remove_user_from_present"
            /\ IF Contains(assigned_to, f.gifter)
               THEN /\ store' = in_place(store, f,
                            [thread_presents(store, f) EXCEPT
                                ![f.found_present_index].assigned_to =
                                    Remove(@, f.gifter)])
                    /\ threads' = [threads EXCEPT ![t].modified = TRUE,
                                                  ![t].pc = "upsert_presents"]
               ELSE /\ store' = store
                    /\ threads' = [threads EXCEPT ![t] = Done(f, "ValueError")]
            /\ UNCHANGED <<last, minted>>

\* upsert_presents(user, presents), and the return that follows it.
ThreadUpsertPresents ==
    \E t \in Threads :
        LET f == threads[t]
        IN  /\ f.pc = "upsert_presents"
            /\ store' = upsert_presents(store, f.user, thread_presents(store, f))
            /\ threads' = [threads EXCEPT ![t] =
                    [Done(f, "ok") EXCEPT !.after =
                        {u \in Threads \ {t} : /\ threads[u].pc = "done"
                                               /\ threads[u].modified}]]
            /\ UNCHANGED <<last, minted>>

ThreadNext ==
    \/ ThreadCall
    \/ CreateReadPresentId
    \/ CreateWritePresentId
    \/ CreateGetPresents
    \/ CreateAppend
    \/ ThreadFind
    \/ ThreadCheck
    \/ AssignAppend
    \/ RemoveRemove
    \/ ThreadUpsertPresents

ThreadSpec == ThreadInit /\ [][ThreadNext]_vars

\* ------------------------------------------- the claims on concurrency

\* The threads that have run method op to its end without an exception.
Returned(op) ==
    {t \in Threads : /\ threads[t].op = op /\ threads[t].pc = "done"
                     /\ threads[t].status = "ok"}

\* The present the create_present of frame f appends.
Created(f) == PresentCreateData_to_present(f.present[1], f.present_id, <<>>)

\* The threads of method op that have changed the list so far.
Changers(op) == {t \in Threads : threads[t].op = op /\ threads[t].modified}

\* list with every assigned_to emptied.
Bare(list) ==
    [i \in 1..Len(list) |-> [list[i] EXCEPT !.assigned_to = <<>>]]

\* list holds the change the create_present or assign_user_to_present of
\* frame f makes: the present appended, the gifter appended.
HoldsChange(list, f) ==
    IF f.op = "create_present"
    THEN Contains(Bare(list), Created(f))
    ELSE /\ f.found_present_index <= Len(list)
         /\ Contains(list[f.found_present_index].assigned_to, f.gifter)

\* Thread b is a second writer that read the list before the change of the
\* first writer a: both have appended and saved, a before b, and the list b
\* got did not hold a's change.
StaleSecondWriter(a, b) ==
    /\ a # b
    /\ {a, b} \subseteq Returned("create_present")
                            \cup Returned("assign_user_to_present")
    /\ threads[a].modified /\ threads[b].modified
    /\ a \in threads[b].after
    /\ ~HoldsChange(threads[b].seen, threads[a])

C17_AssignedOnceWhenInterleaved ==
    \A a, b \in Threads :
        (/\ Returned("assign_user_to_present") = Threads
         /\ threads[a].user = threads[b].user
         /\ threads[a].present_id = threads[b].present_id
         /\ threads[a].gifter = threads[b].gifter)
        => Count(store.presents[threads[a].user]
                    [threads[a].found_present_index].assigned_to,
                 threads[a].gifter) = 1

\* C18: in every interleaving of two create_present calls for one owner,
\* where reading next_present_id, writing it back incremented and appending
\* to the list are separate steps, the two presents created get distinct
\* ids, both are in the list when the calls have returned, and the owner's
\* next_present_id has advanced by exactly 2.
C18_DistinctIdsWhenInterleaved ==
    \A a, b \in Threads :
        (/\ a # b
         /\ Returned("create_present") = Threads
         /\ threads[a].user = threads[b].user)
        => LET user == threads[a].user
               list == store.presents[user]
               before == ThreadStore.presents[user]
           IN  /\ threads[a].present_id # threads[b].present_id
               /\ Len(list) = Len(before) + 2
               /\ {list[Len(before) + 1], list[Len(before) + 2]}
                    = {Created(threads[a]), Created(threads[b])}
               /\ store.users[user].present_id
                    = ThreadStore.users[user].present_id + 2

====
